---- MODULE Spec2Model ----
(***************************************************************************)
(* A model of roles/slurm/files/citc_oci.py: the node-lifecycle controller *)
(* that launches a cloud instance for a Slurm node (start_node), registers *)
(* its address with the scheduler, and tears nodes down                    *)
(* (terminate_instance).                                                   *)
(*                                                                         *)
(* Text produced by external commands (host, scontrol) is modelled as a    *)
(* sequence of atoms: a digit, ".", a whitespace atom, or a word.  The     *)
(* regular expressions of get_ip are computed on these sequences.          *)
(***************************************************************************)
EXTENDS Integers, Sequences, FiniteSets, TLC

VARIABLES
    instances,   \* the provider's instance records, in listing order (id = index)
    cluster,     \* what does not change: DNS, feature tags, nodespace, subnets
    nodeAddr,    \* scheduler: hostname -> stored NodeAddr or None
    tasks,       \* start_node coroutines: task -> record
    running,     \* the task that holds the event loop, or NoTask
    term,        \* the terminate_instance caller
    probe        \* input/output of a single call of a pure function

vars == <<instances, cluster, nodeAddr, tasks, running, term, probe>>

----------------------------------------------------------------------------
(* Universe and bounds *)

Hosts == {"h1", "h2"}
Tasks == {"t1", "t2"}
NoTask == "none"
\* Python's None: of an Optional[str], of an optional object, of an error
NoAddr == <<>>
Null == [null |-> TRUE]
NoErr == "none"

\* the longest list_instances answer given to a single get_node_state call
MaxMatches == 3
\* iterations of each polling loop of start_node that are recorded; the loop
\* goes on beyond them without a trace in the task's record
MaxSleeps == 2
\* VNIC attachments the provider gives one instance
MaxVnics == 2
\* the longest hosts list given to terminate_instance
MaxHosts == 2
\* instances the provider lists before the first request
MaxInitial == 1
\* instances beyond which no other actor launches one
MaxInstances == 2
\* instances the provider lists before the first terminate_instance
MaxListed == 2

LifecycleStates ==
    {"PROVISIONING", "STARTING", "RUNNING", "STOPPING", "STOPPED",
     "TERMINATING", "TERMINATED"}

----------------------------------------------------------------------------
(* Text *)

DigitAtoms == {"0", "1", "2", "3", "4", "5", "6", "7", "8", "9"}
SpaceAtoms == {" ", "\n"}

IsDigit(c) == c \in DigitAtoms

\* 10.0.0.5 and 10.0.0.9: addresses DNS or the scheduler may hold
IP_A == <<"1", "0", ".", "0", ".", "0", ".", "5">>
IP_B == <<"1", "0", ".", "0", ".", "0", ".", "9">>
KnownIPs == {IP_A, IP_B}

DigitOf(n) == CASE n = 0 -> "0" [] n = 1 -> "1" [] n = 2 -> "2" [] n = 3 -> "3"
                [] n = 4 -> "4" [] n = 5 -> "5" [] n = 6 -> "6" [] n = 7 -> "7"
                [] n = 8 -> "8" [] OTHER -> "9"

\* the length of the run of digits of s that starts at position i
RECURSIVE DigitRun(_, _)
DigitRun(s, i) ==
    IF i <= Len(s) /\ IsDigit(s[i]) THEN 1 + DigitRun(s, i + 1) ELSE 0

\* \d+\. at position i: the position after the match, 0 when there is none
MatchOctetDot(s, i) ==
    IF i = 0 THEN 0
    ELSE LET n == DigitRun(s, i)
         IN  IF n > 0 /\ i + n <= Len(s) /\ s[i + n] = "." THEN i + n + 1 ELSE 0

\* (\d+\.){3}\d+ at position i: the position after the match, 0 when none
MatchIPv4At(s, i) ==
    LET p3 == MatchOctetDot(s, MatchOctetDot(s, MatchOctetDot(s, i)))
        n  == IF p3 = 0 THEN 0 ELSE DigitRun(s, p3)
    IN  IF p3 > 0 /\ n > 0 THEN p3 + n ELSE 0

\* str.split()[-1]: the last whitespace-separated token; <<>> stands for the
\* IndexError of an output without any token
RECURSIVE RStrip(_)
RStrip(s) ==
    IF s # <<>> /\ s[Len(s)] \in SpaceAtoms THEN RStrip(SubSeq(s, 1, Len(s) - 1))
    ELSE s

RECURSIVE TokenStart(_, _)
TokenStart(s, i) ==
    IF i > 1 /\ s[i - 1] \notin SpaceAtoms THEN TokenStart(s, i - 1) ELSE i

LastToken(s) ==
    LET r == RStrip(s)
    IN  IF r = <<>> THEN <<>> ELSE SubSeq(r, TokenStart(r, Len(r)), Len(r))

\* re.search(r"NodeAddr=((\d+\.){3}\d+)", s): the first position whose atom
\* is NodeAddr= and that an address follows; 0 when there is none
RECURSIVE SearchNodeAddr(_, _)
SearchNodeAddr(s, i) ==
    IF i > Len(s) THEN 0
    ELSE IF s[i] = "NodeAddr=" /\ MatchIPv4At(s, i + 1) > 0 THEN i
    ELSE SearchNodeAddr(s, i + 1)

\* the name of a host as text
HostText(h) == <<h>>

\* what `host <hostname>` prints for a DNS record
HostOutput(h, a) ==
    IF a = NoAddr
    THEN <<"Host", " ">> \o HostText(h) \o <<" ", "not", " ", "found:", " ",
           "3", "(NXDOMAIN)", "\n">>
    ELSE HostText(h) \o <<" ", "has", " ", "address", " ">> \o a \o <<"\n">>

\* what `scontrol show node <hostname>` prints: a node without a stored
\* address shows its own name as NodeAddr
ScontrolOutput(h, a) ==
    <<"NodeName=">> \o HostText(h) \o <<" ", "Arch=", "x86_64", "\n", " ",
      "NodeAddr=">> \o (IF a = NoAddr THEN HostText(h) ELSE a)
      \o <<" ", "NodeHostName=">> \o HostText(h) \o <<"\n">>

----------------------------------------------------------------------------
(* Provider queries *)

ListInstances_All(insts, hostname) == insts

\* ComputeClient.list_instances(compartment_id, display_name=hostname).data
ListInstances(insts, hostname) ==
    SelectSeq(insts, LAMBDA i : i.display_name = hostname)

get_node_state_FirstMatch(insts, hostname) ==
    LET matches == ListInstances(insts, hostname)
    IN  IF matches = <<>> THEN [state |-> "TERMINATED", log |-> <<>>]
        ELSE [state |-> matches[1].lifecycle_state,
              log   |-> IF Len(matches) > 1
                        THEN << <<"error", "multiple matches">> >>
                        ELSE <<>>]

\* get_node_state: the state returned and what it logs
get_node_state(insts, hostname) ==
    LET matches     == ListInstances(insts, hostname)
        still_exist == SelectSeq(matches, LAMBDA i : i.lifecycle_state # "TERMINATED")
    IN  IF still_exist = <<>>
        THEN [state |-> "TERMINATED", log |-> <<>>]
        ELSE [state |-> still_exist[1].lifecycle_state,
              log   |-> IF Len(still_exist) > 1
                        THEN << <<"error", "multiple matches">> >>
                        ELSE <<>>]

\* get_subnet: the id of the first subnet named Private; IndexError without one
get_subnet(subnets) ==
    LET private == SelectSeq(subnets, LAMBDA s : s.display_name = "Private")
    IN  IF private = <<>> THEN [err |-> "IndexError", id |-> ""]
        ELSE [err |-> NoErr, id |-> private[1].id]

----------------------------------------------------------------------------
(* Address resolution *)

get_ip_SlurmFirst(hostOut, scontrolOut) ==
    LET tok      == LastToken(hostOut)
        dnsEnd   == MatchIPv4At(tok, 1)
        dns_ip   == IF dnsEnd > 0 THEN SubSeq(tok, 1, dnsEnd - 1) ELSE NoAddr
        at       == SearchNodeAddr(scontrolOut, 1)
        slurm_ip == IF at > 0
                    THEN SubSeq(scontrolOut, at + 1, MatchIPv4At(scontrolOut, at + 1) - 1)
                    ELSE NoAddr
    IN  [ip       |-> IF slurm_ip # NoAddr THEN slurm_ip ELSE dns_ip,
         dns_ip   |-> dns_ip,
         slurm_ip |-> slurm_ip]

\* get_ip: (ip, dns_ip, slurm_ip) from the output of host and of scontrol
get_ip(hostOut, scontrolOut) ==
    LET tok      == LastToken(hostOut)
        dnsEnd   == MatchIPv4At(tok, 1)
        dns_ip   == IF dnsEnd > 0 THEN SubSeq(tok, 1, dnsEnd - 1) ELSE NoAddr
        at       == SearchNodeAddr(scontrolOut, 1)
        slurm_ip == IF at > 0
                    THEN SubSeq(scontrolOut, at + 1, MatchIPv4At(scontrolOut, at + 1) - 1)
                    ELSE NoAddr
    IN  [ip       |-> IF dns_ip # NoAddr THEN dns_ip ELSE slurm_ip,
         dns_ip   |-> dns_ip,
         slurm_ip |-> slurm_ip]

----------------------------------------------------------------------------
(* Launch request *)

GpuImage == "Oracle-Linux-7.9-Gen2-GPU-2020.11.10-0"
StdImage == "Oracle-Linux-7.9-2020.11.10-1"

get_images_Complete ==
    [n \in {GpuImage, StdImage} |->
        [r \in {"uk-london-1", "sa-santiago-1"} |->
            <<IF n = GpuImage THEN "gpu" ELSE "std", r>>]]

\* get_images, cut to two of its regions: uk-london-1 has both images,
\* sa-santiago-1 only the GPU image
get_images ==
    [n \in {GpuImage, StdImage} |->
        IF n = GpuImage
        THEN [r \in {"uk-london-1", "sa-santiago-1"} |-> <<"gpu", r>>]
        ELSE [r \in {"uk-london-1"} |-> <<"std", r>>]]

\* str.split(","): the pieces of s between the commas
RECURSIVE SplitComma(_)
SplitComma(s) ==
    IF \A i \in 1..Len(s) : s[i] # "," THEN <<s>>
    ELSE LET c == CHOOSE i \in 1..Len(s) :
                      s[i] = "," /\ \A j \in 1..(i - 1) : s[j] # ","
         IN  <<SubSeq(s, 1, c - 1)>> \o SplitComma(SubSeq(s, c + 1, Len(s)))

RECURSIVE LStrip(_)
LStrip(s) ==
    IF s # <<>> /\ s[1] \in SpaceAtoms THEN LStrip(Tail(s)) ELSE s

\* f.split("=")[1].strip() of a feature that starts with key: the text
\* after the key up to the next key atom, without surrounding whitespace
FeatureValue(f) ==
    LET rest == Tail(f)
        stop == IF \E i \in 1..Len(rest) : rest[i] \in {"ad=", "shape="}
                THEN (CHOOSE i \in 1..Len(rest) :
                        rest[i] \in {"ad=", "shape="}
                        /\ \A j \in 1..(i - 1) : rest[j] \notin {"ad=", "shape="}) - 1
                ELSE Len(rest)
    IN  RStrip(LStrip(SubSeq(rest, 1, stop)))

ContainsGPU_Prefix(shape) == shape # <<>> /\ shape[1] = "GPU"

\* "GPU" in shape
ContainsGPU(shape) == \E i \in 1..Len(shape) : shape[i] = "GPU"

\* create_node_config: the launch details, or the exception it raises.
\* subnetFault: list_subnets answers with a service error
create_node_config(hostname, ip, nodespace, sinfoOut, subnets, subnetFault) ==
    LET features == SplitComma(sinfoOut)
        ads      == SelectSeq(features, LAMBDA f : f # <<>> /\ f[1] = "ad=")
        shapes   == SelectSeq(features, LAMBDA f : f # <<>> /\ f[1] = "shape=")
        shape    == FeatureValue(shapes[1])
        subnet   == get_subnet(subnets)
        image_name == IF ContainsGPU(shape) THEN GpuImage ELSE StdImage
        fail(e)  == [err |-> e, details |-> Null]
    IN  IF ads = <<>> \/ shapes = <<>> THEN fail("IndexError")
        ELSE IF subnetFault THEN fail("ServiceError")
        ELSE IF subnet.err # NoErr THEN fail(subnet.err)
        ELSE IF nodespace.region \notin DOMAIN get_images[image_name]
             THEN fail("KeyError")
        ELSE [err |-> NoErr,
              details |->
                [compartment_id      |-> nodespace.compartment_id,
                 availability_domain |-> <<nodespace.ad_root>> \o FeatureValue(ads[1]),
                 shape               |-> shape,
                 subnet_id           |-> subnet.id,
                 image_id            |-> get_images[image_name][nodespace.region],
                 display_name        |-> hostname,
                 hostname_label      |-> hostname,
                 create_vnic_details |->
                    IF ip # NoAddr
                    THEN [private_ip |-> ip, subnet_id |-> subnet.id]
                    ELSE Null]]

----------------------------------------------------------------------------
(* The cluster a request runs in *)

\* sinfo --Format=features:200 --noheader --nodes=<host>
FeatStd  == <<"shape=", "VM", ".", "Standard", "2", ".", "1", ",", "ad=", "1", " ", "\n">>
FeatGpu  == <<"ad=", "2", ",", "shape=", "BM", ".", "GPU", "2", ".", "2", " ", "\n">>
FeatNoAd == <<"shape=", "VM", ".", "Standard", "2", ".", "1", " ", "\n">>
FeatNoShape == <<"ad=", "1", " ", "\n">>
FeatNull == <<"(null)", " ", "\n">>

SubnetsWithPrivate ==
    << [id |-> "subnet-pub", display_name |-> "Public"],
       [id |-> "subnet-priv", display_name |-> "Private"] >>
SubnetsNoPrivate == << [id |-> "subnet-pub", display_name |-> "Public"] >>

NodeSpace(region) ==
    [region |-> region, ad_root |-> "AD-", compartment_id |-> "compartment",
     vcn_id |-> "vcn"]

\* the address DNS / the scheduler holds for a host that has one
DnsIP(h)   == IF h = "h1" THEN IP_A ELSE <<"1", "0", ".", "0", ".", "0", ".", "6">>
SlurmIP(h) == IF h = "h1" THEN IP_B ELSE <<"1", "0", ".", "0", ".", "0", ".", "8">>

\* the address the provider gives the k-th VNIC of instance id when the
\* launch request names none
PoolIP(id, k) == <<"1", "0", ".", "0", ".", DigitOf(k), ".", DigitOf(id)>>

----------------------------------------------------------------------------
(* The provider *)

NewInstance(id, details) ==
    [id              |-> id,
     display_name    |-> details.display_name,
     lifecycle_state |-> "PROVISIONING",
     private_ip      |-> IF details.create_vnic_details # Null
                         THEN details.create_vnic_details.private_ip
                         ELSE PoolIP(id, 1),
     vnics           |-> <<>>]

\* ComputeClient.list_vnic_attachments(compartment_id, instance_id=node_id).data
ListVnicAttachments(insts, node_id) == insts[node_id].vnics

\* VirtualNetworkClient.get_vnic(vnic_id).data.private_ip
GetVnicPrivateIp(insts, vnic_id) == insts[vnic_id[1]].vnics[vnic_id[2]].private_ip

\* the provider completes a launch or a termination
ProviderAdvance(i) ==
    /\ i \in 1..Len(instances)
    /\ instances[i].lifecycle_state \in {"PROVISIONING", "TERMINATING"}
    /\ instances' = [instances EXCEPT ![i].lifecycle_state =
                        IF @ = "PROVISIONING" THEN "RUNNING" ELSE "TERMINATED"]
    /\ UNCHANGED <<cluster, nodeAddr, tasks, running, term, probe>>

\* another actor asks the provider to terminate an instance
ExternalTerminate(i) ==
    /\ i \in 1..Len(instances)
    /\ instances[i].lifecycle_state \notin {"TERMINATING", "TERMINATED"}
    /\ instances' = [instances EXCEPT ![i].lifecycle_state = "TERMINATING"]
    /\ UNCHANGED <<cluster, nodeAddr, tasks, running, term, probe>>

\* the provider attaches a VNIC to an instance: the first one carries the
\* instance's private address.  Only the attachments of an instance that a
\* request launched are ever listed (line 125, 129), so only those are followed
AttachVnic(i) ==
    /\ i \in 1..Len(instances)
    /\ \E t \in DOMAIN tasks : tasks[t].instance = i
    /\ instances[i].lifecycle_state \in {"PROVISIONING", "RUNNING"}
    /\ Len(instances[i].vnics) < MaxVnics
    /\ LET k == Len(instances[i].vnics) + 1
       IN  instances' = [instances EXCEPT ![i].vnics = Append(@,
                [vnic_id    |-> <<i, k>>,
                 private_ip |-> IF k = 1 THEN instances[i].private_ip
                                ELSE PoolIP(i, k)])]
    /\ UNCHANGED <<cluster, nodeAddr, tasks, running, term, probe>>

----------------------------------------------------------------------------
(* start_node: one coroutine per request, run by one event loop.  A task   *)
(* holds the loop from the moment it is resumed until its next await, its  *)
(* return or its exception; the provider moves at any time.                *)

NewTask(h) ==
    [host |-> h, pc |-> "created",
     reads |-> <<>>,         \* every state get_node_state returned to it
     sleeps |-> 0,           \* sleeps of the TERMINATING guard
     node_state |-> "",      \* what line 101 read
     ip |-> NoAddr, slurm_ip |-> NoAddr, details |-> Null,
     launches |-> 0,         \* calls of client.launch_instance
     launch_fault |-> NoErr,
     instance |-> 0,         \* id of the instance the launch returned
     vnic_polls |-> 0,       \* calls of list_vnic_attachments
     waits |-> 0,            \* sleeps of the VNIC loop
     vnic_id |-> <<>>,
     published |-> <<>>,     \* every address written with scontrol update
     log |-> <<>>,
     result |-> "pending",   \* pending, None (no-op or abort), instance
     exc |-> NoErr]          \* the exception that left start_node

Raised(r, e) == [r EXCEPT !.pc = "raised", !.exc = e]

StillTerminating_Always(state) == TRUE

StillTerminating_Never(state) == FALSE

\* line 97: the condition of the guard loop
StillTerminating(state) == state = "TERMINATING"

AlreadyExists_OnlyRunning(node_state) == node_state = "RUNNING"

\* line 102: the already-exists guard
AlreadyExists(node_state) == node_state # "TERMINATED"

\* line 123: whether the VNIC wait and the address update are entered
NeedsAddress(slurm_ip) == slurm_ip = NoAddr

FirstAttachment_Last(att) == att[Len(att)]

\* line 129: .data[0]
FirstAttachment(att) == att[1]

Logged(r, level, text) == [r EXCEPT !.log = Append(@, <<level, text>>)]

\* line 93-95: the coroutine is started
Start(t) ==
    /\ running = NoTask
    /\ tasks[t].pc = "created"
    /\ tasks' = [tasks EXCEPT ![t] = [Logged(@, "info", "Starting") EXCEPT !.pc = "guard"]]
    /\ running' = t
    /\ UNCHANGED <<instances, cluster, nodeAddr, term, probe>>

\* line 97-99: one evaluation of the loop condition of the TERMINATING guard
GuardRead(t) ==
    /\ running = t
    /\ tasks[t].pc = "guard"
    /\ \E fault \in BOOLEAN :
        LET q == get_node_state(instances, tasks[t].host)
            r == [tasks[t] EXCEPT !.reads = Append(@, q.state), !.log = @ \o q.log]
        IN  IF fault
            THEN /\ tasks' = [tasks EXCEPT ![t] = Raised(@, "ServiceError")]
                 /\ running' = NoTask
            ELSE IF StillTerminating(q.state)
            THEN /\ tasks' = [tasks EXCEPT ![t] =
                        IF tasks[t].sleeps < MaxSleeps
                        THEN [Logged(r, "info", "host is currently terminating") EXCEPT
                                !.pc = "sleep_guard", !.sleeps = @ + 1]
                        ELSE [@ EXCEPT !.pc = "sleep_guard"]]
                 /\ running' = NoTask
            ELSE /\ tasks' = [tasks EXCEPT ![t] = [r EXCEPT !.pc = "check"]]
                 /\ running' = t
    /\ UNCHANGED <<instances, cluster, nodeAddr, term, probe>>

\* line 99: asyncio.sleep(5) is over and the loop resumes the task
WakeGuard(t) ==
    /\ running = NoTask
    /\ tasks[t].pc = "sleep_guard"
    /\ tasks' = [tasks EXCEPT ![t].pc = "guard"]
    /\ running' = t
    /\ UNCHANGED <<instances, cluster, nodeAddr, term, probe>>

\* line 101-104: the already-exists guard reads the state again
CheckRead(t) ==
    /\ running = t
    /\ tasks[t].pc = "check"
    /\ \E fault \in BOOLEAN :
        LET q == get_node_state(instances, tasks[t].host)
            r == [tasks[t] EXCEPT !.reads = Append(@, q.state), !.log = @ \o q.log,
                                  !.node_state = q.state]
        IN  IF fault
            THEN /\ tasks' = [tasks EXCEPT ![t] = Raised(@, "ServiceError")]
                 /\ running' = NoTask
            ELSE IF AlreadyExists(q.state)
            THEN /\ tasks' = [tasks EXCEPT ![t] =
                        [Logged(r, "warning", "host is already running") EXCEPT
                            !.pc = "done", !.result = "None"]]
                 /\ running' = NoTask
            ELSE /\ tasks' = [tasks EXCEPT ![t] = [r EXCEPT !.pc = "prepare"]]
                 /\ running' = t
    /\ UNCHANGED <<instances, cluster, nodeAddr, term, probe>>

Prepare_Blocking(t) ==
    /\ running = t
    /\ tasks[t].pc = "prepare"
    /\ LET h   == tasks[t].host
           a   == get_ip(HostOutput(h, cluster.dns[h]), ScontrolOutput(h, nodeAddr[h]))
           cfg == create_node_config(h, a.ip, cluster.nodespace,
                                     cluster.features[h], cluster.subnets, FALSE)
           r   == [tasks[t] EXCEPT !.ip = a.ip, !.slurm_ip = a.slurm_ip]
       IN  IF cfg.err # NoErr
           THEN tasks' = [tasks EXCEPT ![t] = Raised(r, cfg.err)] /\ running' = NoTask
           ELSE /\ tasks' = [tasks EXCEPT ![t] =
                       [r EXCEPT !.details = cfg.details, !.pc = "launching",
                                 !.launches = @ + 1]]
                /\ running' = t
    /\ UNCHANGED <<instances, cluster, nodeAddr, term, probe>>

\* line 106-117: get_ip, create_node_config, then client.launch_instance is
\* handed to the executor and the task awaits it
Prepare(t) ==
    /\ running = t
    /\ tasks[t].pc = "prepare"
    /\ \E subnetFault \in BOOLEAN :
        LET h   == tasks[t].host
            a   == get_ip(HostOutput(h, cluster.dns[h]), ScontrolOutput(h, nodeAddr[h]))
            cfg == create_node_config(h, a.ip, cluster.nodespace,
                                      cluster.features[h], cluster.subnets, subnetFault)
            r   == [tasks[t] EXCEPT !.ip = a.ip, !.slurm_ip = a.slurm_ip]
        IN  IF cfg.err # NoErr
            THEN tasks' = [tasks EXCEPT ![t] = Raised(r, cfg.err)]
            ELSE tasks' = [tasks EXCEPT ![t] =
                    [r EXCEPT !.details = cfg.details, !.pc = "launching",
                              !.launches = @ + 1]]
    /\ running' = NoTask
    /\ UNCHANGED <<instances, cluster, nodeAddr, term, probe>>

\* line 117, on the executor's thread: client.launch_instance under its retry
\* strategy (line 111-114) returns the instance or raises a ServiceError
LaunchReturn(t) ==
    /\ tasks[t].pc = "launching"
    /\ \/ /\ instances' = Append(instances,
                    NewInstance(Len(instances) + 1, tasks[t].details))
          /\ tasks' = [tasks EXCEPT ![t] =
                    [@ EXCEPT !.pc = "launch_ok", !.instance = Len(instances) + 1]]
       \/ /\ \E cause \in {"non-retryable", "retries exhausted"} :
                tasks' = [tasks EXCEPT ![t] =
                    [@ EXCEPT !.pc = "launch_err", !.launch_fault = cause]]
          /\ UNCHANGED instances
    /\ UNCHANGED <<cluster, nodeAddr, running, term, probe>>

\* line 118 and 123, 135-136: the await returned the launch result
LaunchResumed(t) ==
    /\ running = NoTask
    /\ tasks[t].pc = "launch_ok"
    /\ IF NeedsAddress(tasks[t].slurm_ip)
       THEN /\ tasks' = [tasks EXCEPT ![t].pc = "vnic_poll"]
            /\ running' = t
       ELSE /\ tasks' = [tasks EXCEPT ![t] =
                    [Logged(@, "info", "Started") EXCEPT
                        !.pc = "done", !.result = "instance"]]
            /\ running' = NoTask
    /\ UNCHANGED <<instances, cluster, nodeAddr, term, probe>>

LaunchFailed_Reraise(t) ==
    /\ running = NoTask
    /\ tasks[t].pc = "launch_err"
    /\ tasks' = [tasks EXCEPT ![t] = Raised(@, "ServiceError")]
    /\ running' = NoTask
    /\ UNCHANGED <<instances, cluster, nodeAddr, term, probe>>

\* line 119-121: the await raised oci.exceptions.ServiceError
LaunchFailed(t) ==
    /\ running = NoTask
    /\ tasks[t].pc = "launch_err"
    /\ tasks' = [tasks EXCEPT ![t] =
            [Logged(@, "error", "problem launching instance") EXCEPT
                !.pc = "done", !.result = "None"]]
    /\ running' = NoTask
    /\ UNCHANGED <<instances, cluster, nodeAddr, term, probe>>

\* line 125-127: one evaluation of the loop condition of the VNIC wait
VnicPoll(t) ==
    /\ running = t
    /\ tasks[t].pc = "vnic_poll"
    /\ \E fault \in BOOLEAN :
        LET r == [tasks[t] EXCEPT !.vnic_polls = @ + 1]
        IN  IF fault
            THEN /\ tasks' = [tasks EXCEPT ![t] = Raised(r, "ServiceError")]
                 /\ running' = NoTask
            ELSE IF ListVnicAttachments(instances, tasks[t].instance) = <<>>
            THEN /\ tasks' = [tasks EXCEPT ![t] =
                        IF tasks[t].waits < MaxSleeps
                        THEN [Logged(r, "info", "No VNIC attachment yet") EXCEPT
                                !.pc = "sleep_vnic", !.waits = @ + 1]
                        ELSE [@ EXCEPT !.pc = "sleep_vnic"]]
                 /\ running' = NoTask
            ELSE /\ tasks' = [tasks EXCEPT ![t] = [r EXCEPT !.pc = "vnic_get"]]
                 /\ running' = t
    /\ UNCHANGED <<instances, cluster, nodeAddr, term, probe>>

\* line 127: asyncio.sleep(5) is over and the loop resumes the task
WakeVnic(t) ==
    /\ running = NoTask
    /\ tasks[t].pc = "sleep_vnic"
    /\ tasks' = [tasks EXCEPT ![t].pc = "vnic_poll"]
    /\ running' = t
    /\ UNCHANGED <<instances, cluster, nodeAddr, term, probe>>

\* line 129: the attachments are listed again and the first one is taken
VnicGet(t) ==
    /\ running = t
    /\ tasks[t].pc = "vnic_get"
    /\ \E fault \in BOOLEAN :
        LET att == ListVnicAttachments(instances, tasks[t].instance)
            r   == [tasks[t] EXCEPT !.vnic_polls = @ + 1]
        IN  IF fault
            THEN /\ tasks' = [tasks EXCEPT ![t] = Raised(r, "ServiceError")]
                 /\ running' = NoTask
            ELSE IF att = <<>>
            THEN /\ tasks' = [tasks EXCEPT ![t] = Raised(r, "IndexError")]
                 /\ running' = NoTask
            ELSE /\ tasks' = [tasks EXCEPT ![t] =
                        [r EXCEPT !.pc = "publish",
                                  !.vnic_id = FirstAttachment(att).vnic_id]]
                 /\ running' = t
    /\ UNCHANGED <<instances, cluster, nodeAddr, term, probe>>

\* line 130-136: get_vnic, scontrol update NodeAddr, return instance
Publish(t) ==
    /\ running = t
    /\ tasks[t].pc = "publish"
    /\ \E fault \in BOOLEAN :
        LET private_ip == GetVnicPrivateIp(instances, tasks[t].vnic_id)
        IN  IF fault
            THEN /\ tasks' = [tasks EXCEPT ![t] = Raised(@, "ServiceError")]
                 /\ UNCHANGED nodeAddr
            ELSE /\ nodeAddr' = [nodeAddr EXCEPT ![tasks[t].host] = private_ip]
                 /\ tasks' = [tasks EXCEPT ![t] =
                        [Logged(Logged(@, "info", "Private IP"), "info", "Started")
                            EXCEPT !.pc = "done", !.result = "instance",
                                   !.published = Append(@, private_ip)]]
    /\ running' = NoTask
    /\ UNCHANGED <<instances, cluster, term, probe>>

----------------------------------------------------------------------------
(* Provisioning: concurrent start_node requests against a live provider *)

\* an instance that exists before any request of the model
OldInstance(id, h, st) ==
    [id |-> id, display_name |-> h, lifecycle_state |-> st,
     private_ip |-> PoolIP(id, 1), vnics |-> <<>>]

\* the states of the instances listed at first; TERMINATED is reached from TERMINATING
InitialStates == {"STOPPED", "TERMINATING"}

\* the listings of at most n instances with states of sts
RECURSIVE ListingsOf(_, _)
ListingsOf(n, sts) ==
    IF n = 0 THEN {<<>>}
    ELSE LET shorter == ListingsOf(n - 1, sts)
         IN  shorter \cup
             { Append(l, OldInstance(Len(l) + 1, h, st)) :
                 l \in {x \in shorter : Len(x) = n - 1},
                 h \in Hosts, st \in sts }

Listings(n) == ListingsOf(n, InitialStates)

\* feature tags, region and subnets of the deployments that are followed
Deployments ==
    { [features |-> FeatGpu,  region |-> "sa-santiago-1", subnets |-> SubnetsWithPrivate],
      [features |-> FeatStd,  region |-> "sa-santiago-1", subnets |-> SubnetsWithPrivate],
      [features |-> FeatNoAd, region |-> "uk-london-1",   subnets |-> SubnetsWithPrivate],
      [features |-> FeatStd,  region |-> "uk-london-1",   subnets |-> SubnetsNoPrivate] }

NoProbe == [fn |-> "none"]

----------------------------------------------------------------------------
(* terminate_instance: a blocking call, followed host by host *)

IdleTerm ==
    [pc |-> "idle", hosts |-> <<>>, i |-> 0, node_id |-> 0,
     lookups |-> <<>>,    \* per iteration: what line 147-148 found
     issued  |-> <<>>,    \* every ComputeClient.terminate_instance call
     log |-> <<>>, exc |-> NoErr,
     repeat |-> FALSE]    \* this call repeats the one before

IsLive_Any(n) == TRUE

IsLive_NotTerminated(n) == n.lifecycle_state # "TERMINATED"

\* line 148: the instances a terminate may target
IsLive(n) == n.lifecycle_state \notin {"TERMINATED", "TERMINATING"}

\* the hosts that have an instance which is neither terminating nor terminated
LiveHosts(insts) ==
    {insts[k].display_name :
        k \in {j \in 1..Len(insts) :
                  insts[j].lifecycle_state \notin {"TERMINATING", "TERMINATED"}}}

\* line 143-144 and 155: the for statement takes the next host, or the loop
\* is over and the last host is logged as stopped
NextHost(r) ==
    IF r.i < Len(r.hosts)
    THEN [r EXCEPT !.i = @ + 1, !.pc = "lookup",
                   !.log = Append(@, <<"info", "Stopping", r.i + 1>>)]
    ELSE [r EXCEPT !.pc = "done",
                   !.log = Append(@, <<"info", "Stopped", r.i>>)]

OnError_Break(r, e) ==
    [r EXCEPT !.pc = "done",
              !.log = Append(Append(@, <<"error", "problem while stopping", r.i>>),
                             <<"info", "Stopped", r.i>>)]

\* line 151-153: except Exception: log the problem, continue
OnError(r, e) ==
    NextHost([r EXCEPT !.log = Append(@, <<"error", "problem while stopping", r.i>>)])

\* a call that repeats the one before: the same hosts, after a call that
\* returned, terminated an instance and left none of these hosts live
IsRepeat(r, hs, insts) ==
    /\ r.pc = "done"
    /\ r.hosts = hs
    /\ \E k \in 1..Len(r.issued) : r.issued[k].ok
    /\ \A k \in 1..Len(hs) : hs[k] \notin LiveHosts(insts)

\* line 138-144, 155: terminate_instance(log, hosts) is called
TermCall(hs) ==
    /\ term.pc \in {"idle", "done", "raised"}
    /\ LET r == [IdleTerm EXCEPT
                    !.hosts = hs,
                    !.repeat = IsRepeat(term, hs, instances)]
       IN  term' = IF hs = <<>>
                   THEN [r EXCEPT !.pc = "raised", !.exc = "UnboundLocalError"]
                   ELSE NextHost(r)
    /\ UNCHANGED <<instances, cluster, nodeAddr, tasks, running, probe>>

\* line 147-148: list the instances of the host, take the first live one
TermLookup ==
    /\ term.pc = "lookup"
    /\ \E fault \in BOOLEAN :
        LET host == term.hosts[term.i]
            matching_nodes == ListInstances(instances, host)
            live == SelectSeq(matching_nodes, IsLive)
            seen(found, f) == [term EXCEPT !.lookups = Append(@,
                                [host |-> host, found |-> found, fault |-> f])]
        IN  IF fault THEN term' = OnError(seen(0, TRUE), "ServiceError")
            ELSE IF live = <<>> THEN term' = OnError(seen(0, FALSE), "IndexError")
            ELSE term' = [seen(live[1].id, FALSE) EXCEPT
                            !.pc = "terminate", !.node_id = live[1].id]
    /\ UNCHANGED <<instances, cluster, nodeAddr, tasks, running, probe>>

\* line 150: ComputeClient.terminate_instance(node_id)
TermTerminate ==
    /\ term.pc = "terminate"
    /\ \E fault \in BOOLEAN :
        LET call(ok) == [term EXCEPT !.issued = Append(@,
                            [host |-> term.hosts[term.i], i |-> term.i,
                             node_id |-> term.node_id, ok |-> ok])]
        IN  IF fault
            THEN /\ term' = OnError(call(FALSE), "ServiceError")
                 /\ UNCHANGED instances
            ELSE /\ term' = NextHost(call(TRUE))
                 /\ instances' = [instances EXCEPT ![term.node_id].lifecycle_state =
                        IF @ = "TERMINATED" THEN @ ELSE "TERMINATING"]
    /\ UNCHANGED <<cluster, nodeAddr, tasks, running, probe>>

\* the states of the instances listed at first; TERMINATED is reached from TERMINATING
TeardownStates == {"RUNNING", "TERMINATING"}

HostLists == UNION { [1..n -> Hosts] : n \in 0..MaxHosts }

InitTeardown ==
    /\ instances \in ListingsOf(MaxListed, TeardownStates)
    /\ cluster = [dns       |-> [h \in Hosts |-> NoAddr],
                  features  |-> [h \in Hosts |-> FeatStd],
                  nodespace |-> NodeSpace("uk-london-1"),
                  subnets   |-> SubnetsWithPrivate]
    /\ nodeAddr = [h \in Hosts |-> NoAddr]
    /\ tasks = [t \in {} |-> NewTask("h1")]
    /\ running = NoTask
    /\ term = IdleTerm
    /\ probe = NoProbe

NextTeardown ==
    \/ \E hs \in HostLists : TermCall(hs)
    \/ TermLookup
    \/ TermTerminate
    \/ \E i \in 1..Len(instances) : ProviderAdvance(i)

SpecTeardown == InitTeardown /\ [][NextTeardown]_vars

\* another actor (a second controller process) launches an instance for a
\* host that a request of the run is about
ExternalLaunch(h) ==
    /\ \E t \in DOMAIN tasks : tasks[t].host = h
    /\ Len(instances) < MaxInstances
    /\ instances' = Append(instances,
            [id |-> Len(instances) + 1, display_name |-> h,
             lifecycle_state |-> "PROVISIONING",
             private_ip |-> PoolIP(Len(instances) + 1, 1), vnics |-> <<>>])
    /\ UNCHANGED <<cluster, nodeAddr, tasks, running, term, probe>>

\* the requests of a run: the tasks of ts, the first for h1
InitProvisioning(ts) ==
    /\ instances \in Listings(MaxInitial)
    /\ \E d \in Deployments :
       \E dnsHas \in BOOLEAN :
          cluster = [dns       |-> [h \in Hosts |-> IF dnsHas THEN DnsIP(h) ELSE NoAddr],
                     features  |-> [h \in Hosts |-> d.features],
                     nodespace |-> NodeSpace(d.region),
                     subnets   |-> d.subnets]
    /\ \E slurmHas \in BOOLEAN :
          nodeAddr = [h \in Hosts |-> IF slurmHas THEN SlurmIP(h) ELSE NoAddr]
    /\ \E h2 \in Hosts : tasks = [t \in ts |-> NewTask(IF t = "t1" THEN "h1" ELSE h2)]
    /\ running = NoTask
    /\ term = IdleTerm
    /\ probe = NoProbe

StartNodeStep ==
    \/ \E t \in DOMAIN tasks : Start(t)
    \/ \E t \in DOMAIN tasks : GuardRead(t)
    \/ \E t \in DOMAIN tasks : WakeGuard(t)
    \/ \E t \in DOMAIN tasks : CheckRead(t)
    \/ \E t \in DOMAIN tasks : Prepare(t)
    \/ \E t \in DOMAIN tasks : LaunchReturn(t)
    \/ \E t \in DOMAIN tasks : LaunchResumed(t)
    \/ \E t \in DOMAIN tasks : LaunchFailed(t)
    \/ \E t \in DOMAIN tasks : VnicPoll(t)
    \/ \E t \in DOMAIN tasks : WakeVnic(t)
    \/ \E t \in DOMAIN tasks : VnicGet(t)
    \/ \E t \in DOMAIN tasks : Publish(t)

ProviderStep ==
    \/ \E i \in 1..Len(instances) : ProviderAdvance(i)
    \/ \E i \in 1..Len(instances) : ExternalTerminate(i)
    \/ \E i \in 1..Len(instances) : AttachVnic(i)

\* one request, and a provider that other actors use too
Init == InitProvisioning({"t1"})

Next ==
    \/ StartNodeStep
    \/ ProviderStep
    \/ \E h \in Hosts : ExternalLaunch(h)

Spec == Init /\ [][Next]_vars

----------------------------------------------------------------------------
(* Concurrent requests: two start_node tasks on one event loop, for the     *)
(* same host or for two hosts, and a provider that no other actor uses      *)

\* the deployment is one whose launch requests can be built; DNS knows no
\* host; h1 has no instance or one that is being terminated
InitConcurrent ==
    /\ InitProvisioning(Tasks)
    /\ cluster.features["h1"] = FeatGpu
    /\ cluster.dns["h1"] = NoAddr
    /\ Len(instances) <= 1
    /\ \A k \in 1..Len(instances) :
          /\ instances[k].display_name = "h1"
          /\ instances[k].lifecycle_state = "TERMINATING"

NextConcurrent ==
    \/ StartNodeStep
    \/ \E i \in 1..Len(instances) : ProviderAdvance(i)
    \/ \E i \in 1..Len(instances) : AttachVnic(i)

\* two requests for h1
InitSameHost ==
    /\ InitConcurrent
    /\ tasks["t2"].host = "h1"

SpecSameHost == InitSameHost /\ [][NextConcurrent]_vars

\* a request for h1 and a request for h2
InitTwoHosts ==
    /\ InitConcurrent
    /\ tasks["t2"].host = "h2"

SpecTwoHosts == InitTwoHosts /\ [][NextConcurrent]_vars

\* the steps the event loop runs for task t, but for Prepare
TaskStep(t) ==
    \/ Start(t)
    \/ GuardRead(t)
    \/ WakeGuard(t)
    \/ CheckRead(t)
    \/ LaunchResumed(t)
    \/ LaunchFailed(t)
    \/ VnicPoll(t)
    \/ WakeVnic(t)
    \/ VnicGet(t)
    \/ Publish(t)

\* the event loop runs every task that can run, every sleep ends, the
\* executor's launch call returns (the retry strategy of line 111-113 ends it
\* after 10 attempts or 600 s), the provider completes every termination and
\* attaches a VNIC to every launched instance
Fairness ==
    /\ \A t \in Tasks : WF_vars(t \in DOMAIN tasks /\ TaskStep(t))
    \* WF_vars(Prepare(t)): Prepare(t) is enabled exactly in these states
    /\ \A t \in Tasks :
          []<>~(t \in DOMAIN tasks /\ running = t /\ tasks[t].pc = "prepare")
    /\ \A t \in Tasks : WF_vars(t \in DOMAIN tasks /\ LaunchReturn(t))
    /\ WF_vars(\E i \in 1..Len(instances) : ProviderAdvance(i))
    /\ WF_vars(\E i \in 1..Len(instances) : AttachVnic(i))

\* both polling loops lie on the way of the request for h1: its instance is
\* being terminated and the scheduler holds no address
InitFair ==
    /\ InitTwoHosts
    /\ instances # <<>>
    /\ nodeAddr["h1"] = NoAddr

SpecFair == InitFair /\ [][NextConcurrent]_vars /\ Fairness

----------------------------------------------------------------------------
(* Single calls of the pure functions *)

StateListings ==
    UNION { [1..n -> [display_name : Hosts, lifecycle_state : LifecycleStates]] :
            n \in 0..MaxMatches }

\* the provider's answer as instance records
AsInstances(l) ==
    [k \in 1..Len(l) |->
        [id |-> k, display_name |-> l[k].display_name,
         lifecycle_state |-> l[k].lifecycle_state,
         private_ip |-> PoolIP(k, 1), vnics |-> <<>>]]

StaticCluster(dnsOf, feat, region, subnets) ==
    [dns |-> dnsOf, features |-> [h \in Hosts |-> feat],
     nodespace |-> NodeSpace(region), subnets |-> subnets]

InitQuery ==
    /\ \E l \in StateListings : instances = AsInstances(l)
    /\ cluster = StaticCluster([h \in Hosts |-> NoAddr], FeatStd, "uk-london-1",
                               SubnetsWithPrivate)
    /\ nodeAddr = [h \in Hosts |-> NoAddr]
    /\ tasks = [t \in {} |-> NewTask("h1")]
    /\ running = NoTask
    /\ term = IdleTerm
    /\ probe = NoProbe

\* get_node_state(oci_config, log, compartment_id, hostname) is called once
QueryCall(h) ==
    /\ probe = NoProbe
    /\ LET q == get_node_state(instances, h)
       IN  probe' = [fn |-> "get_node_state", hostname |-> h,
                     state |-> q.state, log |-> q.log]
    /\ UNCHANGED <<instances, cluster, nodeAddr, tasks, running, term>>

NextQuery == \E h \in Hosts : QueryCall(h)

SpecQuery == InitQuery /\ [][NextQuery]_vars

Regions == {"uk-london-1", "sa-santiago-1", "xx-nowhere-1"}
FeatureTexts == {FeatStd, FeatGpu, FeatNoAd, FeatNoShape, FeatNull}

InitResolve ==
    /\ instances = <<>>
    /\ \E a \in KnownIPs \cup {NoAddr}, f \in FeatureTexts, r \in Regions,
          sn \in {SubnetsWithPrivate, SubnetsNoPrivate} :
          cluster = StaticCluster([h \in Hosts |-> a], f, r, sn)
    /\ \E a \in KnownIPs \cup {NoAddr} : nodeAddr = [h \in Hosts |-> a]
    /\ tasks = [t \in {} |-> NewTask("h1")]
    /\ running = NoTask
    /\ term = IdleTerm
    /\ probe = NoProbe

\* get_ip(hostname) is called once
GetIpCall(h) ==
    /\ probe = NoProbe
    /\ probe' = [fn |-> "get_ip", hostname |-> h,
                 ip |-> get_ip(HostOutput(h, cluster.dns[h]),
                               ScontrolOutput(h, nodeAddr[h]))]
    /\ UNCHANGED <<instances, cluster, nodeAddr, tasks, running, term>>

\* create_node_config is called with the address get_ip chose (line 106-108)
ConfigCall ==
    /\ probe.fn = "get_ip"
    /\ \E subnetFault \in BOOLEAN :
        LET h == probe.hostname
        IN  probe' = [fn |-> "create_node_config", hostname |-> h, ip |-> probe.ip,
                      cfg |-> create_node_config(h, probe.ip.ip, cluster.nodespace,
                                cluster.features[h], cluster.subnets, subnetFault)]
    /\ UNCHANGED <<instances, cluster, nodeAddr, tasks, running, term>>

NextResolve ==
    \/ \E h \in Hosts : GetIpCall(h)
    \/ ConfigCall

SpecResolve == InitResolve /\ [][NextResolve]_vars

----------------------------------------------------------------------------
(* Properties *)

InLog(log, level, text) == \E k \in 1..Len(log) : log[k] = <<level, text>>

\* the number of reads at the head of a task's reads that returned TERMINATING
RECURSIVE LeadingTerminating(_)
LeadingTerminating(reads) ==
    IF reads # <<>> /\ reads[1] = "TERMINATING"
    THEN 1 + LeadingTerminating(Tail(reads)) ELSE 0

\* C1: a request whose read at the already-exists guard (line 101) is not
\* TERMINATED has returned None without an exception, with the warning
\* logged, and has issued no launch, polled no VNIC attachment and written
\* no address to the scheduler.
C1_NoDoubleLaunch ==
    \A t \in DOMAIN tasks :
        tasks[t].node_state \notin {"", "TERMINATED"} =>
            /\ tasks[t].pc = "done"
            /\ tasks[t].result = "None"
            /\ tasks[t].exc = NoErr
            /\ tasks[t].launches = 0
            /\ tasks[t].instance = 0
            /\ tasks[t].vnic_polls = 0
            /\ tasks[t].published = <<>>
            /\ InLog(tasks[t].log, "warning", "host is already running")

C1_Witness ==
    \E t \in DOMAIN tasks :
        /\ tasks[t].node_state = "STOPPED"
        /\ tasks[t].pc = "done"

\* C2 (as amended): the guard loop sleeps once for every TERMINATING read and
\* ends at the first read that is not TERMINATING; the state is then read
\* once more (line 101), so a launch is issued only after n + 2 reads and n
\* sleeps: TERMINATING^n, the read that ends the loop (TERMINATED in the
\* claim's sequence) and a further read that returns TERMINATED; it is never
\* issued after a last read of TERMINATING; and once that further TERMINATED
\* is read the request goes on to the launch unless building the launch
\* request raises.
C2_GuardThenLaunch ==
    \A t \in DOMAIN tasks :
        LET r == tasks[t]
            n == LeadingTerminating(r.reads)
        IN  /\ r.sleeps = n
            /\ r.launches > 0 =>
                  /\ Len(r.reads) = n + 2
                  /\ r.reads[n + 1] # "TERMINATING"
                  /\ r.reads[n + 2] = "TERMINATED"
            /\ r.node_state = "TERMINATED" =>
                  \/ r.pc = "prepare"
                  \/ r.launches = 1
                  \/ r.pc = "raised" /\ r.exc \in {"IndexError", "KeyError", "ServiceError"}

C2_Witness ==
    \E t \in DOMAIN tasks :
        /\ tasks[t].launches = 1
        /\ tasks[t].sleeps = 2
        /\ tasks[t].reads = <<"TERMINATING", "TERMINATING", "TERMINATED", "TERMINATED">>

\* C2 (as claimed): when the launch is issued the state has been polled
\* exactly until the first TERMINATED read: TERMINATING^n, TERMINATED and no
\* further read.
C2_PollsUntilFirstTerminated ==
    \A t \in DOMAIN tasks :
        tasks[t].launches > 0 =>
            Len(tasks[t].reads) = LeadingTerminating(tasks[t].reads) + 1

\* C3 (as claimed): no provider service error surfaces from start_node as an
\* exception.
C3_NoServiceErrorSurfaces ==
    \A t \in DOMAIN tasks : tasks[t].exc # "ServiceError"

\* C4: once the launch call has failed with a ServiceError the request logs
\* the error and returns None without an exception; it polls no VNIC
\* attachment and writes no address to the scheduler.
C4_LaunchFailureAborts ==
    \A t \in DOMAIN tasks :
        tasks[t].launch_fault # NoErr =>
            /\ tasks[t].exc = NoErr
            /\ tasks[t].instance = 0
            /\ tasks[t].vnic_polls = 0
            /\ tasks[t].published = <<>>
            /\ nodeAddr[tasks[t].host] \in {NoAddr, SlurmIP(tasks[t].host)}
            /\ \/ tasks[t].pc = "launch_err"
               \/ /\ tasks[t].pc = "done"
                  /\ tasks[t].result = "None"
                  /\ InLog(tasks[t].log, "error", "problem launching instance")

C4_Witness ==
    \E t \in DOMAIN tasks :
        /\ tasks[t].launch_fault = "retries exhausted"
        /\ tasks[t].pc = "done"
        /\ tasks[t].slurm_ip = NoAddr

\* C9: a request issues at most one launch; it writes the scheduler's address
\* only after its launch returned an instance of its host and a VNIC
\* attachment of that instance was listed, writes it once, and writes the
\* private IP of the first attachment; a request for a host without any
\* address that returns the instance has slept once per empty listing and
\* has written that address.
C9_HappyPath ==
    \A t \in DOMAIN tasks :
        LET r == tasks[t]
        IN  /\ r.launches <= 1
            /\ r.published # <<>> =>
                  /\ r.launches = 1
                  /\ r.instance \in 1..Len(instances)
                  /\ instances[r.instance].display_name = r.host
                  /\ instances[r.instance].vnics # <<>>
                  /\ r.published = <<instances[r.instance].vnics[1].private_ip>>
                  /\ nodeAddr[r.host] = r.published[1]
                  /\ r.vnic_polls = r.waits + 2
            /\ (r.pc = "done" /\ r.result = "instance" /\ r.ip = NoAddr) =>
                  /\ Len(r.published) = 1
                  /\ r.published[1] = PoolIP(r.instance, 1)
            /\ r.published = <<>> =>
                  nodeAddr[r.host] \in {NoAddr, SlurmIP(r.host)}

C9_Witness ==
    \E t \in DOMAIN tasks :
        /\ tasks[t].pc = "done"
        /\ tasks[t].result = "instance"
        /\ tasks[t].ip = NoAddr
        /\ tasks[t].reads = <<"TERMINATED", "TERMINATED">>
        /\ tasks[t].waits >= 1
        /\ Len(instances[tasks[t].instance].vnics) = 2
        /\ nodeAddr[tasks[t].host] = PoolIP(tasks[t].instance, 1)

\* C5: a terminate_instance call that repeats the call before it (the same
\* hosts, after a call that returned, terminated an instance and left every
\* instance of these hosts TERMINATING or TERMINATED) raises nothing and
\* issues no provider terminate call.
C5_IdempotentTeardown ==
    term.repeat =>
        /\ term.pc # "raised"
        /\ term.exc = NoErr
        /\ term.issued = <<>>
        /\ term.pc \in {"lookup", "done"}

C5_Witness ==
    /\ term.repeat
    /\ term.pc = "done"
    /\ term.hosts = <<"h1">>
    /\ \E k \in 1..Len(instances) :
          /\ instances[k].display_name = "h1"
          /\ instances[k].lifecycle_state = "TERMINATING"

\* C6 (as claimed): a host whose lookup answered and found no instance that
\* is neither TERMINATED nor TERMINATING gets no provider terminate call and
\* no error in the log.
C6_SilentSuccess ==
    \A k \in 1..Len(term.lookups) :
        (~term.lookups[k].fault /\ term.lookups[k].found = 0) =>
            /\ \A j \in 1..Len(term.issued) : term.issued[j].i # k
            /\ \A j \in 1..Len(term.log) :
                  term.log[j] # <<"error", "problem while stopping", k>>

\* C7: whatever lookups and terminate calls fail, terminate_instance looks
\* every host of a non-empty list up, in the order of the list, issues a
\* terminate call for every host whose lookup found an instance, and returns;
\* an instance whose terminate call succeeded stays TERMINATING or
\* TERMINATED.
C7_PartialFailureIsolation ==
    /\ \A k \in 1..Len(term.lookups) : term.lookups[k].host = term.hosts[k]
    /\ term.pc = "lookup" => Len(term.lookups) = term.i - 1
    /\ term.pc = "terminate" => Len(term.lookups) = term.i
    /\ term.pc = "done" => Len(term.lookups) = Len(term.hosts)
    /\ term.hosts # <<>> => term.pc # "raised"
    /\ \A k \in 1..Len(term.lookups) :
          (term.lookups[k].found # 0 /\ (k < term.i \/ term.pc = "done")) =>
              \E j \in 1..Len(term.issued) :
                  /\ term.issued[j].i = k
                  /\ term.issued[j].node_id = term.lookups[k].found
    /\ \A j \in 1..Len(term.issued) :
          term.issued[j].ok =>
              instances[term.issued[j].node_id].lifecycle_state
                  \in {"TERMINATING", "TERMINATED"}

C7_Witness ==
    /\ term.pc = "done"
    /\ term.hosts = <<"h1", "h2">>
    /\ Len(term.issued) = 2
    /\ ~term.issued[1].ok
    /\ term.issued[2].ok
    /\ instances[term.issued[1].node_id].lifecycle_state = "RUNNING"

\* C8: get_ip returns (chosen, dns, scheduler) with dns the address of the
\* DNS record, scheduler the stored NodeAddr, and chosen the DNS address when
\* there is one, else the scheduler's, else none; the launch request carries
\* a static private IP equal to chosen exactly when there is one.
C8_AddressPrecedence ==
    probe.fn \in {"get_ip", "create_node_config"} =>
        LET d      == cluster.dns[probe.hostname]
            sl     == nodeAddr[probe.hostname]
            chosen == IF d # NoAddr THEN d ELSE sl
        IN  /\ probe.ip = [ip |-> chosen, dns_ip |-> d, slurm_ip |-> sl]
            /\ (probe.fn = "create_node_config" /\ probe.cfg.err = NoErr) =>
                  IF chosen # NoAddr
                  THEN /\ probe.cfg.details.create_vnic_details # Null
                       /\ probe.cfg.details.create_vnic_details.private_ip = chosen
                  ELSE probe.cfg.details.create_vnic_details = Null

C8_Witness ==
    /\ probe.fn = "create_node_config"
    /\ probe.cfg.err = NoErr
    /\ cluster.dns[probe.hostname] = IP_A
    /\ nodeAddr[probe.hostname] = IP_B
    /\ probe.cfg.details.create_vnic_details.private_ip = IP_A

\* the positions of the instances named h that are not TERMINATED
StillThere(h) ==
    {k \in 1..Len(instances) :
        /\ instances[k].display_name = h
        /\ instances[k].lifecycle_state # "TERMINATED"}

\* C10: get_node_state returns TERMINATED when no instance of the host is
\* listed or all of them are TERMINATED; otherwise the state of the first
\* listed instance of the host that is not TERMINATED, and with two or more
\* of those it logs the anomaly.
C10_NodeState ==
    probe.fn = "get_node_state" =>
        LET live == StillThere(probe.hostname)
        IN  /\ live = {} => probe.state = "TERMINATED"
            /\ live # {} =>
                  \E k \in live :
                      /\ \A j \in live : k <= j
                      /\ probe.state = instances[k].lifecycle_state
            /\ Cardinality(live) >= 2 =>
                  \E j \in 1..Len(probe.log) : probe.log[j][1] = "error"

C10_Witness ==
    /\ probe.fn = "get_node_state"
    /\ Len(instances) = 3
    /\ instances[1].display_name = probe.hostname
    /\ instances[1].lifecycle_state = "TERMINATED"
    /\ Cardinality(StillThere(probe.hostname)) = 2
    /\ probe.state = "STOPPING"
    /\ probe.log # <<>>

\* C11: a launch request is built with the GPU image for a shape that
\* contains GPU and with the other image for any other shape; its image id is
\* the table entry of that image for the region of the nodespace; for a
\* region the image's table does not hold, create_node_config raises (a
\* KeyError unless an earlier step already raised) and builds no request with
\* another image or region.
C11_ImageResolution ==
    probe.fn = "create_node_config" =>
        LET feat   == cluster.features[probe.hostname]
            region == cluster.nodespace.region
            gpu    == feat = FeatGpu
            table  == IF gpu THEN {"uk-london-1", "sa-santiago-1"} ELSE {"uk-london-1"}
        IN  /\ probe.cfg.err = NoErr =>
                  /\ region \in table
                  /\ probe.cfg.details.image_id = <<IF gpu THEN "gpu" ELSE "std", region>>
            /\ probe.cfg.err = "KeyError" =>
                  /\ feat \in {FeatStd, FeatGpu}
                  /\ region \notin table
            /\ region \notin table =>
                  /\ probe.cfg.err # NoErr
                  /\ probe.cfg.details = Null
            /\ (feat \in {FeatStd, FeatGpu} /\ region \notin table
                    /\ cluster.subnets = SubnetsWithPrivate) =>
                  probe.cfg.err \in {"KeyError", "ServiceError"}

C11_Witness ==
    /\ probe.fn = "create_node_config"
    /\ cluster.features[probe.hostname] = FeatStd
    /\ cluster.nodespace.region = "sa-santiago-1"
    /\ probe.cfg.err = "KeyError"

\* an entry of the log of terminate_instance about the k-th host of the list
InTermLog(level, text, k) == \E j \in 1..Len(term.log) : term.log[j] = <<level, text, k>>

\* C12 (as claimed): the log of terminate_instance tells every host's outcome:
\* a host whose lookup or terminate call failed has an error entry, and a
\* host has a Stopped entry only if its terminate call succeeded.
C12_PerHostLog ==
    \A k \in 1..Len(term.hosts) :
        /\ (k < term.i \/ term.pc = "done") =>
              ((\A j \in 1..Len(term.issued) :
                    ~(term.issued[j].i = k /\ term.issued[j].ok))
                  => InTermLog("error", "problem while stopping", k))
        /\ InTermLog("info", "Stopped", k) =>
              \E j \in 1..Len(term.issued) :
                  term.issued[j].i = k /\ term.issued[j].ok

\* C19 (as claimed): terminate_instance raises nothing, whatever the list of
\* hosts.
C19_TeardownNeverRaises ==
    /\ term.pc # "raised"
    /\ term.exc = NoErr

\* the positions of the instances named h that are neither TERMINATED nor
\* TERMINATING
LivePositions(h) ==
    {k \in 1..Len(instances) :
        /\ instances[k].display_name = h
        /\ instances[k].lifecycle_state \notin {"TERMINATED", "TERMINATING"}}

\* C20: within one terminate_instance call every entry of the hosts list gets
\* at most one provider terminate call; the lookup of an entry chooses the
\* first listed instance of that name that is neither TERMINATED nor
\* TERMINATING, and the terminate call that follows targets that instance,
\* which is in neither state when the call is made.
C20_TerminateTarget ==
    [][ /\ (term.pc = "lookup" /\ term'.pc = "terminate") =>
              LET live == LivePositions(term.hosts[term.i])
              IN  /\ term'.node_id \in live
                  /\ \A k \in live : term'.node_id <= k
        /\ Len(term'.issued) > Len(term.issued) =>
              LET c == term'.issued[Len(term'.issued)]
              IN  /\ term.pc = "terminate"
                  /\ Len(term'.issued) = Len(term.issued) + 1
                  /\ c.node_id = term.node_id
                  /\ c.i = term.i
                  /\ c.host = instances[c.node_id].display_name
                  /\ c.node_id \in LivePositions(term.hosts[term.i])
                  /\ \A j \in 1..Len(term.issued) : term.issued[j].i # c.i
      ]_vars

C20_Witness ==
    /\ term.pc = "done"
    /\ term.hosts = <<"h1">>
    /\ Len(term.issued) = 1
    /\ term.issued[1].ok
    /\ term.issued[1].node_id = 2
    /\ instances[1].display_name = "h1"
    /\ instances[1].lifecycle_state = "TERMINATING"
    /\ instances[2].lifecycle_state = "TERMINATING"

\* whether the launch request of a task carries a static private IP
StaticIpSupplied(r) ==
    /\ r.details # Null
    /\ r.details.create_vnic_details # Null

\* C13 (as claimed): a request whose launch request carried a static IP polls
\* no VNIC attachment and writes no address to the scheduler.
C13_NoWaitWithStaticIp ==
    \A t \in DOMAIN tasks :
        StaticIpSupplied(tasks[t]) =>
            /\ tasks[t].vnic_polls = 0
            /\ tasks[t].published = <<>>

\* C13 (what line 123 does instead): the VNIC wait and the address update
\* are performed exactly when the scheduler held no address for the host,
\* whether or not the launch request carried a static IP: a request that
\* returns its instance has polled and written one address if the scheduler
\* held none (also when DNS gave the static IP of the launch request), and
\* has polled nothing and written nothing if the scheduler held one.
C13_WaitUnlessSchedulerHasAddress ==
    \A t \in DOMAIN tasks :
        LET r      == tasks[t]
            \* the scheduler's record is the one the request found
            intact == r.published = <<>>
        IN  /\ r.vnic_polls > 0 =>
                  /\ r.instance # 0
                  /\ intact => nodeAddr[r.host] = NoAddr
            /\ (r.launches = 1 /\ intact /\ nodeAddr[r.host] # NoAddr) =>
                  /\ r.vnic_polls = 0
                  /\ r.pc \in {"launching", "launch_ok", "launch_err", "done"}
            /\ (r.pc = "done" /\ r.result = "instance") =>
                  IF intact
                  THEN nodeAddr[r.host] # NoAddr /\ r.vnic_polls = 0
                  ELSE Len(r.published) = 1 /\ r.vnic_polls >= 2

\* C13: a request with a static IP from DNS that waited for the VNIC
C13_StaticIpAndWait ==
    \E t \in DOMAIN tasks :
        /\ tasks[t].pc = "done"
        /\ tasks[t].result = "instance"
        /\ StaticIpSupplied(tasks[t])
        /\ tasks[t].details.create_vnic_details.private_ip = DnsIP(tasks[t].host)
        /\ tasks[t].vnic_polls >= 2
        /\ Len(tasks[t].published) = 1

\* C18: a request whose launch request cannot be built (the region is not in
\* the image's table, the feature text has no ad= entry, there is no Private
\* subnet) ends with that exception propagating from start_node, having
\* issued no launch, polled no VNIC attachment and written no address to the
\* scheduler; and a KeyError or IndexError never leaves start_node after a
\* launch.
C18_ConfigErrorIsFatal ==
    \A t \in DOMAIN tasks :
        LET r == tasks[t]
            h == r.host
            noRegion == /\ cluster.features[h] = FeatStd
                        /\ cluster.nodespace.region = "sa-santiago-1"
            noAd     == cluster.features[h] = FeatNoAd
            noSubnet == cluster.subnets = SubnetsNoPrivate
        IN  /\ r.exc \in {"KeyError", "IndexError"} =>
                  /\ r.pc = "raised"
                  /\ r.result = "pending"
                  /\ r.launches = 0
                  /\ r.instance = 0
                  /\ r.vnic_polls = 0
                  /\ r.published = <<>>
                  /\ nodeAddr[h] \in {NoAddr, SlurmIP(h)}
            /\ ((noRegion \/ noAd \/ noSubnet) /\ r.node_state = "TERMINATED"
                    /\ r.pc # "prepare") =>
                  /\ r.pc = "raised"
                  /\ r.launches = 0
                  /\ noAd => r.exc = "IndexError"
                  /\ (noRegion /\ ~noSubnet) => r.exc \in {"KeyError", "ServiceError"}
                  /\ (noSubnet /\ ~noAd) => r.exc \in {"IndexError", "ServiceError"}

C18_Witness ==
    \E t \in DOMAIN tasks :
        /\ tasks[t].pc = "raised"
        /\ tasks[t].exc = "KeyError"
        /\ tasks[t].sleeps >= 1
        /\ cluster.nodespace.region = "sa-santiago-1"

\* the state of the first listed instance named h that is not TERMINATED
OwnState(h) ==
    IF StillThere(h) = {} THEN "TERMINATED"
    ELSE instances[CHOOSE k \in StillThere(h) : \A j \in StillThere(h) : k <= j].lifecycle_state

\* what the provider, the scheduler and DNS hold about host h
OwnView(h) ==
    <<SelectSeq(instances, LAMBDA i : i.display_name = h), nodeAddr[h], cluster.dns[h]>>

BeforeCheck(r) == r.pc \in {"created", "guard", "sleep_guard", "check"}

\* C14: with two requests for one host, a request that has not yet passed
\* the already-exists guard never passes it once the other request's launch
\* has returned its instance: the only window for a double launch is the
\* time the other launch is in flight.  That window is open: the witness is
\* a state in which both requests read TERMINATED at the guard, both
\* launched, and two instances of the host are not TERMINATED.
C14_RaceWindowIsLaunchInFlight ==
    [][ \A a, b \in DOMAIN tasks :
          (/\ a # b
           /\ tasks[a].host = tasks[b].host
           /\ tasks[a].instance # 0
           /\ BeforeCheck(tasks[b]))
          => /\ tasks'[b].pc # "prepare"
             /\ tasks'[b].launches = 0
      ]_vars

C14_Witness ==
    /\ tasks["t1"].host = tasks["t2"].host
    /\ \A t \in DOMAIN tasks :
          /\ tasks[t].node_state = "TERMINATED"
          /\ tasks[t].launches = 1
          /\ tasks[t].instance # 0
    /\ tasks["t1"].instance # tasks["t2"].instance
    /\ Cardinality(StillThere("h1")) >= 2

\* C15: two requests for different hosts, under every interleaving: every
\* state a request reads is the state of its own host's instances, the
\* address it chooses is its own host's, the instance its launch returns and
\* the VNIC it resolves are its own host's, it launches at most once and at
\* most one instance is launched per host, an address update is made by the
\* request of that host, and a step of the other request changes neither the
\* request nor what the provider, the scheduler and DNS hold about its host.
C15_DifferentHostsIndependent ==
    [][ \A a \in DOMAIN tasks :
          LET h  == tasks[a].host
              r  == tasks[a]
              r2 == tasks'[a]
          IN  /\ r2.launches <= 1
              /\ Len(r2.reads) > Len(r.reads) => r2.reads[Len(r2.reads)] = OwnState(h)
              /\ r2.ip # r.ip =>
                    r2.ip = IF cluster.dns[h] # NoAddr THEN cluster.dns[h] ELSE nodeAddr[h]
              /\ (r.instance = 0 /\ r2.instance # 0) =>
                    /\ Len(instances') = Len(instances) + 1
                    /\ r2.instance = Len(instances')
                    /\ instances'[r2.instance].display_name = h
                    /\ \A k \in 1..Len(instances) : instances[k].display_name # h
                                \/ instances[k].lifecycle_state = "TERMINATED"
              /\ r2.vnic_id # r.vnic_id =>
                    r2.vnic_id = instances[r.instance].vnics[1].vnic_id
              /\ nodeAddr'[h] # nodeAddr[h] =>
                    /\ r.pc = "publish"
                    /\ running = a
                    /\ nodeAddr'[h] = instances[r.instance].vnics[1].private_ip
                    /\ \A g \in Hosts \ {h} : nodeAddr'[g] = nodeAddr[g]
              /\ \A b \in DOMAIN tasks \ {a} :
                    r2 # r =>
                        /\ tasks'[b] = tasks[b]
                        /\ OwnView(tasks[b].host)' = OwnView(tasks[b].host)
      ]_vars

C15_Witness ==
    /\ tasks["t1"].host # tasks["t2"].host
    /\ \A t \in DOMAIN tasks :
          /\ tasks[t].pc = "done"
          /\ tasks[t].result = "instance"
          /\ nodeAddr[tasks[t].host] = PoolIP(tasks[t].instance, 1)
    /\ tasks["t1"].sleeps >= 1
    /\ tasks["t2"].instance < tasks["t1"].instance

\* C16: a request whose launch is in flight does not hold the event loop,
\* and whatever the other request is waiting for it can take its next step:
\* be started, be resumed from the sleep of either polling loop, re-check
\* the condition of the loop it runs, or have its own launch return.
C16_LaunchOffLoop ==
    \A a \in DOMAIN tasks :
        tasks[a].pc = "launching" =>
            /\ running # a
            /\ \A b \in DOMAIN tasks \ {a} :
                  /\ (running = NoTask /\ tasks[b].pc = "created") => ENABLED Start(b)
                  /\ (running = NoTask /\ tasks[b].pc = "sleep_guard") => ENABLED WakeGuard(b)
                  /\ (running = NoTask /\ tasks[b].pc = "sleep_vnic") => ENABLED WakeVnic(b)
                  /\ (running = b /\ tasks[b].pc = "guard") => ENABLED GuardRead(b)
                  /\ (running = b /\ tasks[b].pc = "vnic_poll") => ENABLED VnicPoll(b)
                  /\ tasks[b].pc = "launching" => ENABLED LaunchReturn(b)
                  /\ (running = NoTask /\ tasks[b].pc = "launch_ok") => ENABLED LaunchResumed(b)

C16_Witness ==
    /\ tasks["t2"].pc = "launching"
    /\ running = "t1"
    /\ tasks["t1"].pc = "check"
    /\ tasks["t1"].sleeps >= 1

\* C17: with a fair event loop, a launch call that returns and a provider
\* that completes terminations and attaches VNICs, every request ends (it
\* returns, or a provider error leaves it, see C3); and neither polling loop
\* has another way out than its condition: a request that reads TERMINATING
\* at the guard loop sleeps and reads again, a request that lists no VNIC
\* attachment sleeps and lists again, however often it has done so.
C17_EventuallyReturns ==
    /\ \A t \in Tasks : <>(t \in DOMAIN tasks => tasks[t].pc \in {"done", "raised"})
    /\ [](\A t \in DOMAIN tasks : tasks[t].pc = "raised" => tasks[t].exc = "ServiceError")
    /\ [][ \A t \in DOMAIN tasks :
              LET r == tasks[t]
              IN  /\ (r.pc = "guard" /\ OwnState(r.host) = "TERMINATING"
                          /\ tasks'[t] # r) =>
                        tasks'[t].pc \in {"sleep_guard", "raised"}
                  /\ r.pc = "sleep_guard" => tasks'[t].pc \in {"sleep_guard", "guard"}
                  /\ (r.pc = "vnic_poll" /\ instances[r.instance].vnics = <<>>
                          /\ tasks'[t] # r) =>
                        tasks'[t].pc \in {"sleep_vnic", "raised"}
                  /\ r.pc = "sleep_vnic" => tasks'[t].pc \in {"sleep_vnic", "vnic_poll"}
          ]_vars

C17_Witness ==
    \E t \in DOMAIN tasks :
        /\ tasks[t].pc = "done"
        /\ tasks[t].result = "instance"
        /\ tasks[t].sleeps = MaxSleeps
        /\ tasks[t].waits = MaxSleeps

====
